---- MODULE Spec2Model ----
(***************************************************************************)
(* SentinelAccessMap: the force-directed network graph (NetworkGraph.tsx),  *)
(* its host (App.tsx) with the settings, speech output and voice commands, *)
(* the ThreatPanel and the ChatBot.                                        *)
(*                                                                         *)
(* The d3 calls the component makes are modelled by what d3 does:          *)
(*  - forceSimulation(nodes) starts a timer-driven simulation with         *)
(*    alpha = 1, alphaTarget = 0, and gives nodes without a position an    *)
(*    initial one; a node with fx set gets x = fx;                         *)
(*  - each timer step does alpha += (alphaTarget - alpha) * alphaDecay,    *)
(*    applies the forces, then for every node: x = fx when pinned, else    *)
(*    x += vx; fires "tick"; stops the timer when alpha < alphaMin;        *)
(*  - forceLink resolves link endpoint ids to node objects and throws      *)
(*    "node not found" for an id that no node has;                         *)
(*  - d3.drag keeps one `active` counter per behaviour instance and        *)
(*    listens for move/up on the window, so a gesture outlives the         *)
(*    element it started on.                                               *)
(* Alpha is kept in fixed point, AlphaScale quanta per 1.0, the settle     *)
(* threshold being one quantum.  The net displacement the three forces     *)
(* give a free node in one step is abstracted to "any point of Points".    *)
(*                                                                         *)
(* Specifications: Spec (App with the fixture data), SpecFair (Spec with   *)
(* the timer's frames weakly fair), SpecProps (the component on any small  *)
(* dataset), SpecDecay (alpha decay with and without reducedMotion),       *)
(* SpecFocus (the focus indicator), SpecShapes (nodes of every category    *)
(* and status), SpecDegenerate (one tick on coincident nodes),             *)
(* SpecTwoNodes (the layout of a linked pair), SpecSettings (settings and  *)
(* speech output), SpecPanel (the ThreatPanel), SpecChat (the ChatBot) and *)
(* SpecVoice (voice commands).                                             *)
(***************************************************************************)
EXTENDS Integers, Sequences, FiniteSets, TLC

VARIABLES
  nodes,          \* props.nodes: the host's node list
  links,          \* props.links: the host's link list
  viewMode,       \* App state: "graph" | "list"
  selectedNode,   \* App state: id of the selected node, or NoNode
  reducedMotion,  \* App state, passed down as a prop
  highContrast,   \* App state, passed down as a prop
  mounted,        \* a NetworkGraph instance is mounted and its effect has run
  crashed,        \* the effect threw; React removed the tree
  dataGen,        \* identity of the memoized graphData clone set
  gx,             \* graphData.nodes[i].(x,y)
  gfx,            \* graphData.nodes[i].(fx,fy), NoPos = null
  resolved,       \* graphData.links[j].source/target are object references
  svgLines,       \* <line> elements in the svg: link indexes
  svgGroups,      \* <g> node elements in the svg: datum id and attributes
  transform,      \* transform attribute of the attached <g> of node i
  sims,           \* every simulation ever constructed, in construction order
  gesture,        \* d3-drag gestures in progress, by pointer
  calls,          \* the arguments onNodeClick was invoked with, in order
  activations,    \* ids of the nodes that got a click / Enter / Space event, in order
  otherKeys,      \* number of keydown events with any other key
  audioEnabled,         \* App state (settings)
  screenReaderMode,     \* App state (settings)
  autoReadDescription,  \* App state (settings)
  isSettingsOpen,       \* App state: the settings modal is shown
  out,            \* what the user hears: the live region's announcement, the
                  \* pending timers that clear it, speechSynthesis's queue
  narrative,      \* ThreatPanel state
  loading,        \* ThreatPanel state
  requests,       \* pending generateThreatNarrative promises of the mounted
                  \* ThreatPanel: the id of the node each was made for
  isListening,    \* App state: speech recognition is running
  recognition,    \* what the installed recog.onresult closed over
  commands,       \* handleVoiceCommand calls awaiting parseVoiceCommand
  messages,       \* ChatBot state: the transcript
  input,          \* ChatBot state: the text field
  chatLoading,    \* ChatBot state: loading
  mode,           \* ChatBot state: "chat" | "search"
  chatRequests    \* handleSend calls awaiting the backend

vars == <<nodes, links, viewMode, selectedNode, reducedMotion, highContrast,
          mounted, crashed,
          dataGen, gx, gfx, resolved, svgLines, svgGroups, transform, sims,
          gesture, calls, activations, otherKeys,
          audioEnabled, screenReaderMode, autoReadDescription, isSettingsOpen,
          out, narrative, loading, requests, isListening, recognition,
          commands,
          messages, input, chatLoading, mode, chatRequests>>

----------------------------------------------------------------------------
(* Bounds *)

MaxSims == 2          \* effect runs (simulations constructed) explored
MaxEvents == 2        \* click / keydown events explored
AlphaScale == 4       \* fixed-point quanta per 1.0 of alpha
MaxRequests == 2      \* pending narrative requests explored
MaxTimers == 2        \* pending announcement-clearing timers explored
MaxMessages == 5      \* length of the chat transcript explored
MaxCommands == 1      \* voice commands awaiting their intent explored

----------------------------------------------------------------------------
(* Data *)

NoNode == "none"
NoPos == <<>>
NoGesture == [node |-> 0, sim |-> 0]

\* mockData.ts: two of the fixture nodes and the link between them
mockNodes ==
  << [id |-> "fw-01", label |-> "Core Firewall", type |-> "firewall",
      status |-> "secure"],
     [id |-> "db-prod-01", label |-> "Primary DB", type |-> "database",
      status |-> "critical"] >>

mockLinks == << [source |-> "fw-01", target |-> "db-prod-01"] >>

\* where the forces can take a free node, where a pointer can drag one
ForcePoints == { <<7, 0>>, <<-9, 8>> }
DragPoints == { <<400, 400>> }
Points == ForcePoints \cup DragPoints

Pointers == {"mouse", "touch"}

Keys == {"Enter", " ", "Tab"}

\* d3 initializeNodes: phyllotaxis placement of a node without a position
InitPos(i) == IF i % 2 = 1 THEN <<7, 0>> ELSE <<-9, 8>>

NodeIdx == 1..Len(nodes)

NodeIds == { nodes[i].id : i \in NodeIdx }

----------------------------------------------------------------------------
(* Alpha arithmetic *)

CeilDiv(a, b) == (a + b - 1) \div b

\* d3 defaults: alpha = 1, alphaMin = 0.001 (one quantum here), alphaTarget = 0
AlphaInit == AlphaScale
AlphaMin == 1
\* dragstarted: alphaTarget(0.3)
WarmTarget == (3 * AlphaScale) \div 10
\* a decay that reducedMotion does not change
DecayNumDefault(rm) == 228

\* alphaDecay: d3 default 1 - 0.001^(1/300) ~ 0.0228; reduced motion 0.15
DecayNum(rm) == IF rm THEN 1500 ELSE 228
DecayDen == 10000

\* alpha += (alphaTarget - alpha) * alphaDecay, rounded to the next quantum
AlphaStep(alpha, target, rm) ==
  IF target >= alpha
    THEN alpha + CeilDiv((target - alpha) * DecayNum(rm), DecayDen)
    ELSE alpha - CeilDiv((alpha - target) * DecayNum(rm), DecayDen)

----------------------------------------------------------------------------
(* State groups *)

propVars == <<nodes, links>>
appVars == <<viewMode, selectedNode, reducedMotion, highContrast>>
dataVars == <<gx, gfx, resolved>>
domVars == <<svgLines, svgGroups, transform>>
graphVars == <<mounted, crashed, dataGen, gx, gfx, resolved, svgLines,
               svgGroups, transform, sims>>
logVars == <<calls, activations, otherKeys>>
settingsVars == <<audioEnabled, screenReaderMode, autoReadDescription,
                  isSettingsOpen>>
panelVars == <<narrative, loading, requests>>
voiceVars == <<isListening, recognition, commands>>
chatVars == <<messages, input, chatLoading, mode, chatRequests>>
\* the state a change of selection leaves alone
quietVars == <<settingsVars, voiceVars, chatVars>>
shellVars == <<out, panelVars, quietVars>>
\* the state of the graph and of what drives it
graphState == <<propVars, viewMode, reducedMotion, highContrast, graphVars,
                gesture, logVars>>

\* a graphData that hands d3 the host's own objects
graphDataSharingProps == "props"

\* graphData = useMemo(() => ({ nodes: nodes.map(d => ({...d})),
\*                             links: links.map(d => ({...d})) })):
\* the objects d3 is given are copies
graphData == "copies"

\* props.nodes once d3 has written positions x and pins fx on the node
\* objects it simulates
NodesAfter(x, fx) ==
  IF graphData = "copies" THEN nodes
  ELSE [i \in NodeIdx |->
          [id |-> nodes[i].id, label |-> nodes[i].label,
           type |-> nodes[i].type, status |-> nodes[i].status,
           x |-> x[i], fx |-> fx[i]]]

\* props.links once forceLink has resolved (res) the link objects it was
\* given: it sets link.index and replaces the endpoint ids by node objects
LinksAfter(res) ==
  IF graphData = "copies" THEN links
  ELSE [j \in 1..Len(links) |->
          IF res[j]
            THEN [source |-> links[j].source, target |-> links[j].target,
                  index |-> j - 1]
            ELSE links[j]]

\* what a step of the component leaves in the host's data
HostData ==
  /\ nodes' = NodesAfter(gx', gfx')
  /\ links' = LinksAfter(resolved')

\* the simulation whose tick listener and drag handlers belong to the
\* elements now in the document
cur == Len(sims)

Active(s) == Cardinality({ p \in Pointers : gesture[p].sim = s })

----------------------------------------------------------------------------
(* NetworkGraph: the effect *)

\* a find whose predicate ignores the id: the first node, whatever was asked
FindIgnoringId(id) == IF NodeIdx # {} THEN 1 ELSE 0

\* nodes.find(n => n.id === id): index of the first match, 0 for undefined
Find(id) ==
  IF \E i \in NodeIdx : nodes[i].id = id
    THEN CHOOSE i \in NodeIdx :
           /\ nodes[i].id = id
           /\ \A k \in NodeIdx : nodes[k].id = id => i <= k
    ELSE 0

\* forceLink's nodeById = new Map(nodes.map(d => [id(d), d])).get(id): the
\* index of the last node with that id, 0 for undefined
NodeById(id) ==
  IF \E i \in NodeIdx : nodes[i].id = id
    THEN CHOOSE i \in NodeIdx :
           /\ nodes[i].id = id
           /\ \A k \in NodeIdx : nodes[k].id = id => k <= i
    ELSE 0

\* a find that takes any id for found
LinkFoundUnchecked(l) == TRUE

\* forceLink's find(nodeById, id) succeeds for both endpoints
LinkFound(l) == l.source \in NodeIds /\ l.target \in NodeIds

\* links forceLink.initialize cannot resolve: still ids, and no such node
BadLinks(res) == { j \in 1..Len(links) : ~res[j] /\ ~LinkFound(links[j]) }

FirstBad(res) == CHOOSE j \in BadLinks(res) : \A k \in BadLinks(res) : j <= k

\* d3.forceSimulation(graphData.nodes): a running timer, alpha 1, target 0
NewSimulation(dg) ==
  [alpha |-> AlphaInit, target |-> 0, rm |-> FALSE, running |-> TRUE,
   data |-> dg, forces |-> FALSE]

\* initializeNodes: x = fx when pinned; a node without a position is placed
InitializeNodes(x0, fx0) ==
  [i \in NodeIdx |->
     IF fx0[i] # NoPos THEN fx0[i]
     ELSE IF x0[i] = NoPos THEN InitPos(i) ELSE x0[i]]

\* a clear that leaves the previous run's elements in place
Kept(elements) == elements

\* svg.selectAll("*").remove(): nothing of the previous run stays
Cleared(elements) == <<>>

\* .selectAll("line").data(graphData.links).enter().append("line")
EnterLines == [j \in 1..Len(links) |-> j]

\* a description that leaves the status out
AriaLabelWithoutStatus(d) ==
  <<d.type, " ", d.label, ". Press Enter to view details.">>

\* `${d.type} ${d.label}, Status: ${d.status}. Press Enter to view details.`
\* as the pieces of the template, in order
AriaLabel(d) ==
  <<d.type, " ", d.label, ", Status: ", d.status,
    ". Press Enter to view details.">>

\* no inline filter style on the path
NoFilter == "none"

\* node.append("path").attr("stroke", highContrast ? "#ffff00" : "#fff")
PathStroke(hc) == IF hc THEN "#ffff00" ELSE "#fff"

\* .attr("stroke-width", highContrast ? 3 : 2)
PathStrokeWidth(hc) == IF hc THEN 3 ELSE 2

\* const s = 22: base scale size of the shapes
NodeScale == 22

\* a getNodePath that draws servers as squares, like firewalls
getNodePathBoxes(type) ==
  LET s == 10 * NodeScale IN
    CASE type = "router" ->
           << <<"M", 0, -(13 * NodeScale)>>, <<"L", 13 * NodeScale, 0>>,
              <<"L", 0, 13 * NodeScale>>, <<"L", -(13 * NodeScale), 0>>,
              <<"Z">> >>
      [] type \in {"firewall", "server"} ->
           << <<"M", -s, -s>>, <<"L", s, -s>>, <<"L", s, s>>, <<"L", -s, s>>,
              <<"Z">> >>
      [] type = "database" ->
           << <<"M", -(6 * NodeScale), -(11 * NodeScale)>>,
              <<"L", 6 * NodeScale, -(11 * NodeScale)>>,
              <<"L", 11 * NodeScale, 0>>,
              <<"L", 6 * NodeScale, 11 * NodeScale>>,
              <<"L", -(6 * NodeScale), 11 * NodeScale>>,
              <<"L", -(11 * NodeScale), 0>>, <<"Z">> >>
      [] OTHER ->
           << <<"M", 0, 0>>, <<"m", -s, 0>>,
              <<"a", s, s, 0, 1, 0, 2 * s, 0>>,
              <<"a", s, s, 0, 1, 0, -(2 * s), 0>> >>

\* getNodePath(type): the path commands of the template strings, every
\* coordinate in tenths (s * 1.3 is 13 * NodeScale tenths)
getNodePath(type) ==
  LET s == 10 * NodeScale IN
    CASE type = "router" ->     \* diamond
           << <<"M", 0, -(13 * NodeScale)>>, <<"L", 13 * NodeScale, 0>>,
              <<"L", 0, 13 * NodeScale>>, <<"L", -(13 * NodeScale), 0>>,
              <<"Z">> >>
      [] type = "firewall" ->   \* square
           << <<"M", -s, -s>>, <<"L", s, -s>>, <<"L", s, s>>, <<"L", -s, s>>,
              <<"Z">> >>
      [] type = "database" ->   \* hexagon
           << <<"M", -(6 * NodeScale), -(11 * NodeScale)>>,
              <<"L", 6 * NodeScale, -(11 * NodeScale)>>,
              <<"L", 11 * NodeScale, 0>>,
              <<"L", 6 * NodeScale, 11 * NodeScale>>,
              <<"L", -(6 * NodeScale), 11 * NodeScale>>,
              <<"L", -(11 * NodeScale), 0>>, <<"Z">> >>
      [] type = "server" ->     \* vertical rectangle
           << <<"M", -(8 * NodeScale), -(11 * NodeScale)>>,
              <<"L", 8 * NodeScale, -(11 * NodeScale)>>,
              <<"L", 8 * NodeScale, 11 * NodeScale>>,
              <<"L", -(8 * NodeScale), 11 * NodeScale>>, <<"Z">> >>
      [] OTHER ->               \* workstation and default: circle
           << <<"M", 0, 0>>, <<"m", -s, 0>>,
              <<"a", s, s, 0, 1, 0, 2 * s, 0>>,
              <<"a", s, s, 0, 1, 0, -(2 * s), 0>> >>

\* getStatusColor(status), highContrast being the prop hc
getStatusColor(status, hc) ==
  IF status = "critical" THEN (IF hc THEN "#ff0000" ELSE "#ef4444")
  ELSE IF status = "warning" THEN (IF hc THEN "#ffa500" ELSE "#f59e0b")
  ELSE (IF hc THEN "#0000ff" ELSE "#3b82f6")

\* the text of the glyph inside the shape; the default branch,
\* d.type.charAt(0).toUpperCase(), is kept as that expression of the type
Glyph(type) ==
  CASE type = "router" -> "R"
    [] type = "firewall" -> "FW"
    [] type = "database" -> "DB"
    [] type = "server" -> "SVR"
    [] type = "workstation" -> "WS"
    [] OTHER -> <<"charAt(0).toUpperCase()", type>>

\* the <g> of datum d: .attr("tabindex", 0).attr("role", "button")
\*                     .attr("aria-label", ...)
\* and its <path>, rendered by an effect run whose highContrast prop is hc
\* (which its listeners close over); no element has the focus when created
NodeGroup(d, hc) ==
  [id |-> d.id, tabindex |-> 0, role |-> "button", ariaLabel |-> AriaLabel(d),
   stroke |-> PathStroke(hc), strokeWidth |-> PathStrokeWidth(hc),
   filter |-> NoFilter, highContrast |-> hc, focused |-> FALSE,
   path |-> getNodePath(d.type), fill |-> getStatusColor(d.status, hc),
   glyph |-> Glyph(d.type), label |-> d.label]

\* a join that draws a placeholder group when there is no node
EnterGroupsOrPlaceholder(hc) ==
  IF nodes = <<>>
    THEN << [id |-> "empty", tabindex |-> -1, role |-> "img",
             ariaLabel |-> <<"No nodes">>] >>
    ELSE [i \in NodeIdx |-> NodeGroup(nodes[i], hc)]

\* .selectAll("g").data(graphData.nodes).enter().append("g"), the datum of
\* group i being the copy of nodes[i]
EnterGroups(hc) == [i \in NodeIdx |-> NodeGroup(nodes[i], hc)]

\* the ids of the data bound to the groups in the svg
GroupIds == [k \in DOMAIN svgGroups |-> svgGroups[k].id]

\* useEffect body, lines 34-194, run on the clone set (x0, fx0, res0) of
\* identity dg with the reducedMotion prop rm and the highContrast prop hc
RunEffect(x0, fx0, res0, rm, hc, dg) ==
  /\ Len(sims) < MaxSims
  /\ dataGen' = dg
  /\ gx' = InitializeNodes(x0, fx0)
  /\ gfx' = fx0
  /\ transform' = [i \in NodeIdx |-> NoPos]
  /\ IF BadLinks(res0) # {}
       THEN \* .force("link", ...) throws "node not found"
            /\ sims' = Append(sims, NewSimulation(dg))
            /\ resolved' = [j \in 1..Len(links) |->
                              res0[j] \/ j < FirstBad(res0)]
            /\ svgLines' = <<>>
            /\ svgGroups' = <<>>
            /\ mounted' = FALSE
            /\ crashed' = TRUE
       ELSE /\ sims' = Append(sims, [NewSimulation(dg) EXCEPT
                                      !.forces = TRUE, !.rm = rm])
            /\ resolved' = [j \in 1..Len(links) |-> TRUE]
            /\ svgLines' = Cleared(svgLines) \o EnterLines
            /\ svgGroups' = Cleared(svgGroups) \o EnterGroups(hc)
            /\ mounted' = TRUE
            /\ crashed' = FALSE

\* a new NetworkGraph instance: useMemo clones the props
MountGraph ==
  RunEffect([i \in NodeIdx |-> NoPos], [i \in NodeIdx |-> NoPos],
            [j \in 1..Len(links) |-> FALSE], reducedMotion', highContrast',
            Len(sims) + 1)

\* App re-rendered: handleNodeClick is a new function, so the effect's
\* dependency list changed; graphData is the same memoized clone set
Rerender ==
  IF mounted
    THEN RunEffect(gx, gfx, resolved, reducedMotion', highContrast', dataGen)
    ELSE UNCHANGED graphVars

\* first commit of <App/>
Mount ==
  /\ sims = <<>> /\ ~mounted /\ ~crashed /\ viewMode = "graph"
  /\ UNCHANGED <<appVars, gesture, logVars>>
  /\ MountGraph
  /\ HostData
  /\ UNCHANGED shellVars

----------------------------------------------------------------------------
(* App: speak, and the ThreatPanel it renders for the selected node *)

\* texts are sequences of the pieces they are put together from
NoText == <<>>

Silence == [announcement |-> NoText, timers |-> 0, synth |-> <<>>]

\* a speechSynthesis.cancel() that leaves the queue as it is
cancelNothing(queue) == queue

\* window.speechSynthesis.cancel(): removes all utterances from the queue
cancel(queue) == <<>>

\* speak(text) of the render in which screenReaderMode was srm and
\* audioEnabled was ae, on the output state o
speak(o, text, srm, ae) ==
  IF srm
    THEN [o EXCEPT !.announcement = text, !.timers = @ + 1]
    ELSE IF ae
           THEN [o EXCEPT !.synth = Append(cancel(@), text)]
           ELSE o

\* `Selected ${node.label}. ${node.description}`
SelectedText(node) == <<"Selected ", node.label, ". ", "description", node.id>>

\* the narrative generateThreatNarrative resolves to for a node
NarrativeFor(id) == <<"narrative", id>>

\* ThreatPanel's effect for a node, run after a render in which the settings
\* are srm, ae and auto, o being the output state the handler left: it reads
\* the description out if enabled, then setLoading(true) and
\* generateThreatNarrative(node).then(...)
PanelEffect(o, node, srm, ae, auto) ==
  /\ Len(requests) < MaxRequests
  /\ o.timers < MaxTimers
  /\ out' = IF (ae \/ srm) /\ auto
              THEN speak(o, SelectedText(node), srm, ae)
              ELSE o
  /\ loading' = TRUE
  /\ requests' = Append(requests, node.id)
  /\ UNCHANGED narrative

\* the ThreatPanel is unmounted: its state is gone and the promises it left
\* pending set the state of no mounted component
PanelUnmount ==
  /\ narrative' = NoText
  /\ loading' = FALSE
  /\ requests' = <<>>
  /\ UNCHANGED out

----------------------------------------------------------------------------
(* App: the host's handling of onNodeClick *)

\* handleNodeClick: setSelectedNode(node); a changed selection re-renders App
\* and with it the NetworkGraph and the ThreatPanel
handleNodeClick(node) ==
  /\ selectedNode' = node.id
  /\ UNCHANGED <<viewMode, reducedMotion, highContrast>>
  /\ IF selectedNode # node.id
       THEN /\ Rerender
            /\ PanelEffect(out, node, screenReaderMode, audioEnabled,
                           autoReadDescription)
       ELSE UNCHANGED <<graphVars, out, panelVars>>

\* what the click and keydown listeners do for the element of node i:
\* const originalNode = nodes.find(n => n.id === d.id);
\* if (originalNode) onNodeClick(originalNode);
Activate(i) ==
  LET originalNode == Find(svgGroups[i].id) IN
    IF originalNode # 0
      THEN /\ calls' = Append(calls, nodes[originalNode])
           /\ handleNodeClick(nodes[originalNode])
      ELSE UNCHANGED <<calls, appVars, graphVars, out, panelVars>>

\* .on("click", ...)
Click(i) ==
  /\ mounted /\ i \in DOMAIN svgGroups
  /\ Len(activations) + otherKeys < MaxEvents
  /\ activations' = Append(activations, svgGroups[i].id)
  /\ Activate(i)
  /\ UNCHANGED <<gesture, otherKeys, quietVars>>
  /\ HostData

\* .on("keydown", ...)
KeyDown(i, key) ==
  /\ mounted /\ i \in DOMAIN svgGroups
  /\ Len(activations) + otherKeys < MaxEvents
  /\ IF key = "Enter" \/ key = " "
       THEN /\ activations' = Append(activations, svgGroups[i].id)
            /\ Activate(i)
            /\ UNCHANGED otherKeys
       ELSE /\ otherKeys' = otherKeys + 1
            /\ UNCHANGED <<activations, calls, appVars, graphVars, out,
                           panelVars>>
  /\ UNCHANGED <<gesture, quietVars>>
  /\ HostData

----------------------------------------------------------------------------
(* NetworkGraph: drag handlers.  A gesture belongs to the drag behaviour   *)
(* (and so to the simulation) of the effect run that rendered the element  *)
(* it started on; its datum is node i of that run's clone set.             *)

SameData(s) == sims[s].data = dataGen

\* a dragstarted that also selects the node it is started on
dragstartedSelecting(p, i) ==
  /\ mounted /\ i \in DOMAIN svgGroups
  /\ gesture[p] = NoGesture
  /\ gesture' = [gesture EXCEPT ![p] = [node |-> i, sim |-> cur]]
  /\ sims' = IF Active(cur) = 0
               THEN [sims EXCEPT ![cur].target = WarmTarget,
                                 ![cur].running = TRUE]
               ELSE sims
  /\ gfx' = [gfx EXCEPT ![i] = gx[i]]
  /\ calls' = Append(calls, nodes[i])
  /\ UNCHANGED <<appVars, activations, otherKeys, mounted, crashed,
                 dataGen, gx, resolved, domVars>>
  /\ HostData
  /\ UNCHANGED shellVars

\* a dragstarted that restarts the layout from the initial placement
dragstartedFromScratch(p, i) ==
  /\ mounted /\ i \in DOMAIN svgGroups
  /\ gesture[p] = NoGesture
  /\ gesture' = [gesture EXCEPT ![p] = [node |-> i, sim |-> cur]]
  /\ sims' = IF Active(cur) = 0
               THEN [sims EXCEPT ![cur].target = WarmTarget,
                                 ![cur].running = TRUE]
               ELSE sims
  /\ gx' = [k \in NodeIdx |-> InitPos(k)]
  /\ gfx' = [gfx EXCEPT ![i] = InitPos(i)]
  /\ UNCHANGED <<appVars, logVars, mounted, crashed, dataGen, resolved,
                 domVars>>
  /\ HostData
  /\ UNCHANGED shellVars

\* dragstarted: if (!event.active) simulation.alphaTarget(0.3).restart();
\*              d.fx = d.x; d.fy = d.y;
dragstarted(p, i) ==
  /\ mounted /\ i \in DOMAIN svgGroups
  /\ gesture[p] = NoGesture
  /\ gesture' = [gesture EXCEPT ![p] = [node |-> i, sim |-> cur]]
  /\ sims' = IF Active(cur) = 0
               THEN [sims EXCEPT ![cur].target = WarmTarget,
                                 ![cur].running = TRUE]
               ELSE sims
  /\ gfx' = [gfx EXCEPT ![i] = gx[i]]
  /\ UNCHANGED <<appVars, logVars, mounted, crashed, dataGen, gx,
                 resolved, domVars>>
  /\ HostData
  /\ UNCHANGED shellVars

\* dragged: d.fx = event.x; d.fy = event.y;
dragged(p, pos) ==
  /\ gesture[p] # NoGesture
  /\ gfx' = IF SameData(gesture[p].sim)
              THEN [gfx EXCEPT ![gesture[p].node] = pos]
              ELSE gfx
  /\ UNCHANGED <<appVars, logVars, mounted, crashed, dataGen, gx,
                 resolved, domVars, sims, gesture>>
  /\ HostData
  /\ UNCHANGED shellVars

\* dragended: if (!event.active) simulation.alphaTarget(0);
\*            d.fx = null; d.fy = null;
dragended(p) ==
  /\ gesture[p] # NoGesture
  /\ gesture' = [gesture EXCEPT ![p] = NoGesture]
  /\ sims' = IF Active(gesture[p].sim) = 1
               THEN [sims EXCEPT ![gesture[p].sim].target = 0]
               ELSE sims
  /\ gfx' = IF SameData(gesture[p].sim)
              THEN [gfx EXCEPT ![gesture[p].node] = NoPos]
              ELSE gfx
  /\ UNCHANGED <<appVars, logVars, mounted, crashed, dataGen, gx,
                 resolved, domVars>>
  /\ HostData
  /\ UNCHANGED shellVars

----------------------------------------------------------------------------
(* d3-timer frame: every running simulation takes one step, in order *)

Running == { s \in 1..Len(sims) : sims[s].running }

\* simulation.tick(): alpha update; stop when alpha < alphaMin (step())
StepSim(sim) ==
  LET a == AlphaStep(sim.alpha, sim.target, sim.rm) IN
    [sim EXCEPT !.alpha = a, !.running = (a >= AlphaMin)]

\* a position loop that integrates every node, pinned or not
TickPositionIgnoringPin(x, fx, moved) == moved

\* position loop of tick(): if (node.fx == null) node.x += node.vx
\*                          else node.x = node.fx
\* moved is where the forces take a free node
TickPosition(x, fx, moved) == IF fx = NoPos THEN moved ELSE fx

Frame ==
  /\ Running # {}
  /\ sims' = [s \in 1..Len(sims) |->
                IF sims[s].running THEN StepSim(sims[s]) ELSE sims[s]]
  /\ IF \E s \in Running : SameData(s)
       THEN \E moved \in [NodeIdx -> ForcePoints] :
              gx' = [i \in NodeIdx |->
                       TickPosition(gx[i], gfx[i],
                         IF \E s \in Running : SameData(s) /\ sims[s].forces
                           THEN moved[i] ELSE gx[i])]
       ELSE gx' = gx
  \* simulation.on("tick"): node.attr("transform", translate(d.x, d.y))
  /\ transform' = IF mounted /\ cur \in Running THEN gx' ELSE transform
  /\ UNCHANGED <<appVars, logVars, mounted, crashed, dataGen, gfx,
                 resolved, svgLines, svgGroups, gesture>>
  /\ HostData
  /\ UNCHANGED shellVars

----------------------------------------------------------------------------
(* App: other state changes that re-render it *)

\* handleMotionChange: setReducedMotion(e.matches)
handleMotionChange ==
  /\ ~crashed /\ sims # <<>>
  /\ reducedMotion' = ~reducedMotion
  /\ UNCHANGED highContrast
  /\ Rerender
  /\ UNCHANGED <<viewMode, selectedNode, gesture, logVars>>
  /\ HostData
  /\ UNCHANGED shellVars

\* ThreatPanel onClose: setSelectedNode(null)
onClose ==
  /\ ~crashed /\ selectedNode # NoNode
  /\ selectedNode' = NoNode
  /\ UNCHANGED <<viewMode, reducedMotion, highContrast>>
  /\ Rerender
  /\ PanelUnmount
  /\ UNCHANGED <<gesture, logVars, quietVars>>
  /\ HostData

\* sidebar buttons: setViewMode('graph' | 'list')
setViewMode(m) ==
  /\ ~crashed /\ sims # <<>> /\ m # viewMode
  /\ viewMode' = m
  /\ UNCHANGED <<selectedNode, reducedMotion, highContrast>>
  /\ IF m = "list"
       THEN \* NetworkGraph unmounts; the effect returns no cleanup
            /\ mounted' = FALSE
            /\ svgLines' = <<>>
            /\ svgGroups' = <<>>
            /\ transform' = [i \in NodeIdx |-> NoPos]
            /\ UNCHANGED <<crashed, dataGen, gx, gfx, resolved, sims>>
       ELSE MountGraph
  /\ UNCHANGED <<gesture, logVars>>
  /\ HostData
  /\ UNCHANGED shellVars

\* the App's own state and that of ThreatPanel and ChatBot at the first
\* commit; the recognition effect has run in the first render
ShellInit ==
  /\ audioEnabled = FALSE
  /\ screenReaderMode = FALSE
  /\ autoReadDescription = TRUE
  /\ isSettingsOpen = FALSE
  /\ out = Silence
  /\ narrative = NoText
  /\ loading = FALSE
  /\ requests = <<>>
  /\ isListening = FALSE
  /\ recognition = [selectedNode |-> NoNode, screenReaderMode |-> FALSE,
                    audioEnabled |-> FALSE]
  /\ commands = <<>>
  /\ messages = << [role |-> "model", text |-> <<"greeting">>] >>
  /\ input = NoText
  /\ chatLoading = FALSE
  /\ mode = "chat"
  /\ chatRequests = <<>>

----------------------------------------------------------------------------
(* Specification: App with the fixture data *)

Init ==
  /\ nodes = mockNodes
  /\ links = mockLinks
  /\ viewMode = "graph"
  /\ selectedNode = NoNode
  /\ reducedMotion = FALSE
  /\ highContrast = FALSE
  /\ mounted = FALSE
  /\ crashed = FALSE
  /\ dataGen = 0
  /\ gx = [i \in NodeIdx |-> NoPos]
  /\ gfx = [i \in NodeIdx |-> NoPos]
  /\ resolved = [j \in 1..Len(links) |-> FALSE]
  /\ svgLines = <<>>
  /\ svgGroups = <<>>
  /\ transform = [i \in NodeIdx |-> NoPos]
  /\ sims = <<>>
  /\ gesture = [p \in Pointers |-> NoGesture]
  /\ calls = <<>>
  /\ activations = <<>>
  /\ otherKeys = 0
  /\ ShellInit

Next ==
  \/ Mount
  \/ \E i \in NodeIdx : Click(i)
  \/ \E i \in NodeIdx, key \in Keys : KeyDown(i, key)
  \/ \E p \in Pointers, i \in NodeIdx : dragstarted(p, i)
  \/ \E p \in Pointers, pos \in DragPoints : dragged(p, pos)
  \/ \E p \in Pointers : dragended(p)
  \/ Frame
  \/ handleMotionChange
  \/ onClose
  \/ \E m \in {"graph", "list"} : setViewMode(m)

Spec == Init /\ [][Next]_vars

\* no d3-drag gesture is in progress
NoDrag == \A p \in Pointers : gesture[p] = NoGesture

\* d3-timer calls every running simulation's step on each animation frame
SpecFair == Spec /\ WF_vars(Frame)

----------------------------------------------------------------------------
(* Specification: the component mounted on any small dataset *)

ghostLink == [source |-> "fw-01", target |-> "ghost"]

NodeLists == { SubSeq(mockNodes, 1, n) : n \in 0..Len(mockNodes) }

LinkLists ==
  { <<>>, mockLinks, <<ghostLink>>, mockLinks \o <<ghostLink>>,
    <<ghostLink>> \o mockLinks }

InitProps ==
  /\ nodes \in NodeLists
  /\ links \in LinkLists
  /\ viewMode = "graph"
  /\ selectedNode = NoNode
  /\ reducedMotion \in BOOLEAN
  /\ highContrast = FALSE
  /\ mounted = FALSE
  /\ crashed = FALSE
  /\ dataGen = 0
  /\ gx = [i \in NodeIdx |-> NoPos]
  /\ gfx = [i \in NodeIdx |-> NoPos]
  /\ resolved = [j \in 1..Len(links) |-> FALSE]
  /\ svgLines = <<>>
  /\ svgGroups = <<>>
  /\ transform = [i \in NodeIdx |-> NoPos]
  /\ sims = <<>>
  /\ gesture = [p \in Pointers |-> NoGesture]
  /\ calls = <<>>
  /\ activations = <<>>
  /\ otherKeys = 0
  /\ ShellInit

NextProps ==
  \/ Mount
  \/ Frame
  \/ \E i \in NodeIdx : Click(i)

SpecProps == InitProps /\ [][NextProps]_vars

----------------------------------------------------------------------------
(* Specification: the alpha decay of two simulations constructed alike, one *)
(* without and one with reducedMotion, stepped frame by frame.  Alpha is    *)
(* kept at DecayScale quanta per 1.0, so that one quantum is alphaMin.      *)

DecayScale == 1000

\* the energies a simulation without a drag decays from: alpha = 1 at
\* construction, alphaTarget(0.3) reached when a drag was released
StartAlphas == { DecayScale, (3 * DecayScale) \div 10 }

\* if (reducedMotion) simulation.alphaDecay(0.15), on a simulation of its own
SimulationWith(rm, a0, dg) ==
  [NewSimulation(dg) EXCEPT !.forces = TRUE, !.rm = rm, !.alpha = a0]

InitDecay ==
  /\ nodes = mockNodes
  /\ links = mockLinks
  /\ viewMode = "list"
  /\ selectedNode = NoNode
  /\ reducedMotion = FALSE
  /\ highContrast = FALSE
  /\ mounted = FALSE
  /\ crashed = FALSE
  /\ dataGen = 0
  /\ gx = [i \in NodeIdx |-> InitPos(i)]
  /\ gfx = [i \in NodeIdx |-> NoPos]
  /\ resolved = [j \in 1..Len(links) |-> TRUE]
  /\ svgLines = <<>>
  /\ svgGroups = <<>>
  /\ transform = [i \in NodeIdx |-> NoPos]
  /\ \E a0 \in StartAlphas :
       sims = << SimulationWith(FALSE, a0, 1), SimulationWith(TRUE, a0, 2) >>
  /\ gesture = [p \in Pointers |-> NoGesture]
  /\ calls = <<>>
  /\ activations = <<>>
  /\ otherKeys = 0
  /\ ShellInit

NextDecay == Frame

SpecDecay == InitDecay /\ [][NextDecay]_vars

----------------------------------------------------------------------------
(* NetworkGraph: the focus indicator.  Specification of the focus and blur *)
(* listeners under keyboard and pointer focus changes and both values of   *)
(* highContrast.                                                           *)

FocusStroke == "#38bdf8"
FocusStrokeWidth == 5
FocusFilter == "drop-shadow(0 0 8px rgba(56, 189, 248, 0.8))"

\* .on("focus", ...): the path gets the focus outline and glow
onFocus(g) ==
  [g EXCEPT !.stroke = FocusStroke, !.strokeWidth = FocusStrokeWidth,
            !.filter = FocusFilter, !.focused = TRUE]

\* a blur that restores the default theme's stroke whatever the contrast
BlurStrokeDefault(hc) == "#fff"

\* .on("blur", ...): .attr("stroke", highContrast ? "#ffff00" : "#fff")
BlurStroke(hc) == IF hc THEN "#ffff00" ELSE "#fff"

\* .attr("stroke-width", highContrast ? 3 : 2)
BlurStrokeWidth(hc) == IF hc THEN 3 ELSE 2

\* .on("blur", ...), highContrast being the prop of the run that rendered g;
\* .style("filter", null) removes the inline filter
onBlur(g) ==
  [g EXCEPT !.stroke = BlurStroke(g.highContrast),
            !.strokeWidth = BlurStrokeWidth(g.highContrast),
            !.filter = NoFilter, !.focused = FALSE]

\* the focus moves to group i (0: out of the graph): the browser sends blur
\* to the element that had it, then focus to the one that gets it
MoveFocus(i) ==
  svgGroups' = [k \in DOMAIN svgGroups |->
                  IF k = i THEN onFocus(svgGroups[k])
                  ELSE IF svgGroups[k].focused THEN onBlur(svgGroups[k])
                  ELSE svgGroups[k]]

\* a pointer or script gives group i the focus
focus(i) ==
  /\ mounted /\ i \in DOMAIN svgGroups
  /\ ~svgGroups[i].focused
  /\ MoveFocus(i)
  /\ UNCHANGED <<appVars, logVars, gesture, mounted, crashed, dataGen,
                 dataVars, svgLines, transform, sims>>
  /\ HostData
  /\ UNCHANGED shellVars

\* the focus leaves the graph
blur(i) ==
  /\ mounted /\ i \in DOMAIN svgGroups
  /\ svgGroups[i].focused
  /\ MoveFocus(0)
  /\ UNCHANGED <<appVars, logVars, gesture, mounted, crashed, dataGen,
                 dataVars, svgLines, transform, sims>>
  /\ HostData
  /\ UNCHANGED shellVars

\* Tab on the focused group i: the keydown listener ignores the key and
\* the browser moves the focus to the next tab stop, the next group in
\* document order, or out of the graph after the last one
TabKey(i) ==
  /\ mounted /\ i \in DOMAIN svgGroups
  /\ svgGroups[i].focused
  /\ Len(activations) + otherKeys < MaxEvents
  /\ otherKeys' = otherKeys + 1
  /\ MoveFocus(IF i < Len(svgGroups) THEN i + 1 ELSE 0)
  /\ UNCHANGED <<appVars, calls, activations, gesture, mounted, crashed,
                 dataGen, dataVars, svgLines, transform, sims>>
  /\ HostData
  /\ UNCHANGED shellVars

\* handleContrastChange: setHighContrast(e.matches)
handleContrastChange ==
  /\ ~crashed /\ sims # <<>>
  /\ highContrast' = ~highContrast
  /\ UNCHANGED <<viewMode, selectedNode, reducedMotion>>
  /\ Rerender
  /\ UNCHANGED <<gesture, logVars>>
  /\ HostData
  /\ UNCHANGED shellVars

InitFocus ==
  /\ nodes = mockNodes
  /\ links = mockLinks
  /\ viewMode = "graph"
  /\ selectedNode = NoNode
  /\ reducedMotion = FALSE
  /\ highContrast \in BOOLEAN
  /\ mounted = FALSE
  /\ crashed = FALSE
  /\ dataGen = 0
  /\ gx = [i \in NodeIdx |-> NoPos]
  /\ gfx = [i \in NodeIdx |-> NoPos]
  /\ resolved = [j \in 1..Len(links) |-> FALSE]
  /\ svgLines = <<>>
  /\ svgGroups = <<>>
  /\ transform = [i \in NodeIdx |-> NoPos]
  /\ sims = <<>>
  /\ gesture = [p \in Pointers |-> NoGesture]
  /\ calls = <<>>
  /\ activations = <<>>
  /\ otherKeys = 0
  /\ ShellInit

NextFocus ==
  \/ Mount
  \/ \E i \in NodeIdx : focus(i)
  \/ \E i \in NodeIdx : blur(i)
  \/ \E i \in NodeIdx : TabKey(i)
  \/ handleContrastChange
  \/ Frame

SpecFocus == InitFocus /\ [][NextFocus]_vars

----------------------------------------------------------------------------
(* Specification: the component on two nodes of any category and status,   *)
(* under any accessibility flags and changes of them.                      *)

Categories == {"router", "firewall", "database", "server", "workstation"}
Statuses == {"secure", "warning", "critical"}

InitShapes ==
  /\ \E t1 \in Categories, t2 \in Categories, s1 \in Statuses, s2 \in Statuses :
       nodes = << [id |-> "n1", label |-> "Node 1", type |-> t1, status |-> s1],
                  [id |-> "n2", label |-> "Node 2", type |-> t2, status |-> s2] >>
  /\ links = <<>>
  /\ viewMode = "graph"
  /\ selectedNode = NoNode
  /\ reducedMotion \in BOOLEAN
  /\ highContrast \in BOOLEAN
  /\ mounted = FALSE
  /\ crashed = FALSE
  /\ dataGen = 0
  /\ gx = [i \in NodeIdx |-> NoPos]
  /\ gfx = [i \in NodeIdx |-> NoPos]
  /\ resolved = [j \in 1..Len(links) |-> FALSE]
  /\ svgLines = <<>>
  /\ svgGroups = <<>>
  /\ transform = [i \in NodeIdx |-> NoPos]
  /\ sims = <<>>
  /\ gesture = [p \in Pointers |-> NoGesture]
  /\ calls = <<>>
  /\ activations = <<>>
  /\ otherKeys = 0
  /\ ShellInit

NextShapes ==
  \/ Mount
  \/ handleContrastChange
  \/ handleMotionChange

SpecShapes == InitShapes /\ [][NextShapes]_vars

----------------------------------------------------------------------------
(* Specification: the arithmetic of one tick on two linked nodes at or     *)
(* next to the same position.  d3-force draws its jiggle from a linear     *)
(* congruential generator, s = (1664525 s + 1013904223) mod 2^32 from      *)
(* s = 1, jiggle = (s / 2^32 - 0.5) * 1e-6; the state is kept here as      *)
(* <<high, low>> 16-bit halves so that the products stay in range.         *)
(* Positions and velocities are whole pixels; a jiggle is far below a      *)
(* pixel and counts only when the pixel difference is zero.                *)

\* .distance(150), .strength(-500)
LinkDistance == 150
ChargeStrength == -500

\* forceCenter(width / 2, height / 2) with the default width and height
Center == <<400, 300>>

\* a position with a NaN coordinate
NaNPos == <<"NaN">>

\* a generator stuck at the midpoint, whose every jiggle is zero
LcgStuck(s) == <<32768, 0>>

\* s = (a * s + c) % m, a = 25 * 2^16 + 26125, c = 15470 * 2^16 + 62303
LcgNext(s) ==
  LET p == 26125 * s[2]
      lo == (p % 65536) + 62303
      hi == (p \div 65536) + 25 * s[2] + 26125 * s[1] + 15470
              + (lo \div 65536)
  IN  <<hi % 65536, lo % 65536>>

\* jiggle: (random() - 0.5) * 1e-6, in units of 2^-14 * 1e-6, rounded away
\* from zero; zero exactly when s = 2^31
Jiggle(s) ==
  IF s = <<32768, 0>> THEN 0
  ELSE LET h == (s[1] - 32768) \div 4 IN IF h = 0 THEN 1 ELSE h

RECURSIVE IsqrtBetween(_, _, _)
IsqrtBetween(n, lo, hi) ==
  IF lo >= hi THEN lo
  ELSE LET mid == (lo + hi + 1) \div 2 IN
         IF mid * mid <= n THEN IsqrtBetween(n, mid, hi)
         ELSE IsqrtBetween(n, lo, mid - 1)

\* Math.sqrt, rounded down
Isqrt(n) == IsqrtBetween(n, 0, 16384)

\* the generator after the jiggles one force evaluation draws for the
\* difference (dx, dy): x = dx || jiggle(), then y = dy || jiggle()
AfterX(dx, r) == IF dx = 0 THEN LcgNext(r) ELSE r
AfterY(dx, dy, r) == IF dy = 0 THEN LcgNext(AfterX(dx, r)) ELSE AfterX(dx, r)

\* the velocity <<finite, vx, vy>> a force of the given pull per unit
\* direction gives along (dx, dy): with both differences zero the
\* direction is that of the two jiggles, divided by their length, which is
\* a division by zero when both are zero
Along(dx, dy, r, pull) ==
  LET jx == Jiggle(AfterX(dx, r))
      jy == Jiggle(AfterY(dx, dy, r))
  IN  IF dx = 0 /\ dy = 0
        THEN LET l == Isqrt(jx * jx + jy * jy) IN
               IF l = 0 THEN <<FALSE, 0, 0>>
               ELSE <<TRUE, (jx * pull) \div l, (jy * pull) \div l>>
        ELSE LET l == Isqrt(dx * dx + dy * dy) IN
               <<TRUE, (dx * pull) \div l, (dy * pull) \div l>>

\* forceLink on the link source -> target, (dx, dy) = target - source:
\* l = (l - distance) / l * alpha * strength; each end gets half of it
LinkPull(dx, dy, a) ==
  IF dx = 0 /\ dy = 0 THEN -((LinkDistance * a) \div (2 * AlphaScale))
  ELSE ((Isqrt(dx * dx + dy * dy) - LinkDistance) * a) \div (2 * AlphaScale)

\* forceManyBody on a node from the other one at (dx, dy) from it:
\* l below distanceMin2 = 1 is raised to sqrt(l); w = strength * alpha / l
ChargePull(dx, dy, a) ==
  IF dx = 0 /\ dy = 0 THEN (ChargeStrength * a) \div AlphaScale
  ELSE (ChargeStrength * a) \div (AlphaScale * Isqrt(dx * dx + dy * dy))

\* node.x += node.vx *= velocityDecay (0.6), from the position the center
\* force moved the node to, for the velocities v and w two forces gave it
Integrate(pos, shift, v, w) ==
  IF ~v[1] \/ ~w[1] THEN NaNPos
  ELSE << pos[1] + shift[1] + (6 * (v[2] + w[2])) \div 10,
          pos[2] + shift[2] + (6 * (v[3] + w[3])) \div 10 >>

Negated(v) == <<v[1], -v[2], -v[3]>>

\* d3.forceSimulation(graphData.nodes), its generator in state s
SimulationWithRandom(s) ==
  [alpha |-> AlphaInit, target |-> 0, rm |-> FALSE, running |-> TRUE,
   data |-> 1, forces |-> TRUE, random |-> s]

\* the first tick of the simulation on the two nodes: link force, then
\* many-body force on node 1 and on node 2, then center force, then the
\* position update; then the tick listener
tick ==
  /\ Len(sims) = 1 /\ sims[1].running /\ sims[1].alpha = AlphaInit
  /\ LET a == AlphaStep(sims[1].alpha, sims[1].target, sims[1].rm)
         dx == gx[2][1] - gx[1][1]
         dy == gx[2][2] - gx[1][2]
         r0 == sims[1].random
         r1 == AfterY(dx, dy, r0)
         r2 == AfterY(dx, dy, r1)
         r3 == AfterY(dx, dy, r2)
         link == Along(dx, dy, r0, LinkPull(dx, dy, a))
         charge1 == Along(dx, dy, r1, ChargePull(dx, dy, a))
         charge2 == Along(-dx, -dy, r2, ChargePull(dx, dy, a))
         shift == << Center[1] - (gx[1][1] + gx[2][1]) \div 2,
                     Center[2] - (gx[1][2] + gx[2][2]) \div 2 >>
     IN  /\ gx' = << Integrate(gx[1], shift, link, charge1),
                     Integrate(gx[2], shift, Negated(link), charge2) >>
         /\ sims' = << [sims[1] EXCEPT !.alpha = a, !.running = (a >= AlphaMin),
                                       !.random = r3] >>
  /\ transform' = gx'
  /\ UNCHANGED <<appVars, logVars, mounted, crashed, dataGen, gfx, resolved,
                 svgLines, svgGroups, gesture>>
  /\ HostData
  /\ UNCHANGED shellVars

\* generator states: the seed, the state whose jiggle is zero, the three
\* before it and the one after it
RandomStates ==
  { <<0, 1>>, <<32768, 0>>, <<42454, 4069>>, <<30567, 798>>, <<61293, 50683>>,
    <<48238, 62303>> }

InitDegenerate ==
  /\ nodes = mockNodes
  /\ links = mockLinks
  /\ viewMode = "graph"
  /\ selectedNode = NoNode
  /\ reducedMotion = FALSE
  /\ highContrast = FALSE
  /\ mounted = TRUE
  /\ crashed = FALSE
  /\ dataGen = 1
  /\ \E dx \in -1..1, dy \in -1..1 :
       gx = << <<400, 400>>, <<400 + dx, 400 + dy>> >>
  /\ gfx = [i \in NodeIdx |-> NoPos]
  /\ resolved = [j \in 1..Len(links) |-> TRUE]
  /\ svgLines = EnterLines
  /\ svgGroups = EnterGroups(FALSE)
  /\ transform = [i \in NodeIdx |-> NoPos]
  /\ \E s \in RandomStates : sims = << SimulationWithRandom(s) >>
  /\ gesture = [p \in Pointers |-> NoGesture]
  /\ calls = <<>>
  /\ activations = <<>>
  /\ otherKeys = 0
  /\ ShellInit

NextDegenerate == tick

SpecDegenerate == InitDegenerate /\ [][NextDegenerate]_vars

----------------------------------------------------------------------------
(* Specification: the layout of two linked nodes from construction to the  *)
(* settled state, along the line through them.  Here gx[i] holds           *)
(* <<x, y, vx, vy>> of node i in 1/PxScale pixels and alpha is kept at     *)
(* DecayScale quanta per 1.0.                                              *)

PxScale == 100

\* the jitter between the two starting positions, in 1/PxScale pixels
Jitters == {1, 2, 5}

Abs(v) == IF v >= 0 THEN v ELSE -v

Sign(v) == IF v > 0 THEN 1 ELSE IF v < 0 THEN -1 ELSE 0

\* v * num / den, rounded towards zero
Scaled(v, num, den) == Sign(v) * ((Abs(v) * num) \div den)

\* forceLink: x = target.x + target.vx - source.x - source.vx;
\* l = (l - distance) / l * alpha * strength; x *= l: the change of
\* velocity along x, of which each end takes half (bias 0.5)
LinkKick(x, a) ==
  Sign(x) * Scaled(Abs(x) - LinkDistance * PxScale, a, DecayScale)

\* forceManyBody on a node from the other one at distance d:
\* w = strength * alpha / l with l = d * d, or sqrt(d * d) when d * d is
\* below distanceMin2 = 1; the change of velocity is d * w
ChargeKick(d, a) ==
  IF Abs(d) < PxScale
    THEN Sign(d) * Scaled(ChargeStrength * PxScale, a, DecayScale)
    ELSE Sign(d) * ((Scaled(ChargeStrength * PxScale, a, DecayScale) * PxScale)
                      \div Abs(d))

\* one step of the simulation of the pair: alpha, link force, many-body
\* force, center force, then vx *= 0.6 and x += vx; then the tick listener
tickPair ==
  /\ Len(sims) = 1 /\ sims[1].running
  /\ LET a == AlphaStep(sims[1].alpha, sims[1].target, sims[1].rm)
         s == gx[1]
         t == gx[2]
         link == LinkKick((t[1] + t[3]) - (s[1] + s[3]), a)
         vs == s[3] + Scaled(link, 1, 2) + ChargeKick(t[1] - s[1], a)
         vt == t[3] - Scaled(link, 1, 2) + ChargeKick(s[1] - t[1], a)
         shift == Center[1] * PxScale - (s[1] + t[1]) \div 2
     IN  /\ gx' = << <<s[1] + shift + Scaled(vs, 6, 10), s[2], Scaled(vs, 6, 10), 0>>,
                     <<t[1] + shift + Scaled(vt, 6, 10), t[2], Scaled(vt, 6, 10), 0>> >>
         /\ sims' = << [sims[1] EXCEPT !.alpha = a, !.running = (a >= AlphaMin)] >>
  /\ transform' = [i \in NodeIdx |-> <<gx'[i][1], gx'[i][2]>>]
  /\ UNCHANGED <<appVars, logVars, mounted, crashed, dataGen, gfx, resolved,
                 svgLines, svgGroups, gesture>>
  /\ HostData
  /\ UNCHANGED shellVars

InitTwoNodes ==
  /\ nodes = mockNodes
  /\ links = mockLinks
  /\ viewMode = "graph"
  /\ selectedNode = NoNode
  /\ reducedMotion = FALSE
  /\ highContrast = FALSE
  /\ mounted = TRUE
  /\ crashed = FALSE
  /\ dataGen = 1
  /\ \E j \in Jitters :
       gx = << <<Center[1] * PxScale, Center[2] * PxScale, 0, 0>>,
               <<Center[1] * PxScale + j, Center[2] * PxScale, 0, 0>> >>
  /\ gfx = [i \in NodeIdx |-> NoPos]
  /\ resolved = [j \in 1..Len(links) |-> TRUE]
  /\ svgLines = EnterLines
  /\ svgGroups = EnterGroups(FALSE)
  /\ transform = [i \in NodeIdx |-> NoPos]
  /\ sims = << SimulationWith(FALSE, DecayScale, 1) >>
  /\ gesture = [p \in Pointers |-> NoGesture]
  /\ calls = <<>>
  /\ activations = <<>>
  /\ otherKeys = 0
  /\ ShellInit

NextTwoNodes == tickPair

SpecTwoNodes == InitTwoNodes /\ [][NextTwoNodes]_vars

\* the distance between the two nodes, in 1/PxScale pixels
PairDistance == Abs(gx[2][1] - gx[1][1])

----------------------------------------------------------------------------
(* App: settings, the list view, and the ThreatPanel's buttons *)

\* the selected node's record
SelectedRecord == nodes[Find(selectedNode)]

\* the commit after the handler left the output state o and changed
\* settings: the NetworkGraph effect re-runs; the recognition effect re-runs
\* when speak is a new callback (its dependencies are audioEnabled and
\* screenReaderMode); ThreatPanel's effect re-runs when its audioEnabled
\* prop (audioEnabled || screenReaderMode) or autoReadDescription changed
SettingsCommit(o) ==
  /\ UNCHANGED <<viewMode, selectedNode, reducedMotion, highContrast>>
  /\ Rerender
  /\ recognition' =
       IF <<audioEnabled', screenReaderMode'>> # <<audioEnabled, screenReaderMode>>
         THEN [selectedNode |-> selectedNode,
               screenReaderMode |-> screenReaderMode',
               audioEnabled |-> audioEnabled']
         ELSE recognition
  /\ IF /\ selectedNode # NoNode
        /\ <<audioEnabled' \/ screenReaderMode', autoReadDescription'>>
             # <<audioEnabled \/ screenReaderMode, autoReadDescription>>
       THEN PanelEffect(o, SelectedRecord, screenReaderMode', audioEnabled',
                        autoReadDescription')
       ELSE out' = o /\ UNCHANGED panelVars
  /\ UNCHANGED <<gesture, logVars, isListening, commands, chatVars>>
  /\ HostData

\* sidebar: onClick={() => setIsSettingsOpen(true)}
openSettings ==
  /\ ~crashed /\ ~isSettingsOpen
  /\ isSettingsOpen' = TRUE
  /\ UNCHANGED <<audioEnabled, screenReaderMode, autoReadDescription>>
  /\ SettingsCommit(out)

\* SettingsModal onClose: setIsSettingsOpen(false)
closeSettings ==
  /\ ~crashed /\ isSettingsOpen
  /\ isSettingsOpen' = FALSE
  /\ UNCHANGED <<audioEnabled, screenReaderMode, autoReadDescription>>
  /\ SettingsCommit(out)

\* sidebar audio button: setAudioEnabled(!audioEnabled)
sidebarAudio == ~audioEnabled

\* sidebar audio button, its whole onClick: it is under the modal's backdrop
\* while the settings are open
toggleAudio ==
  /\ ~crashed /\ ~isSettingsOpen
  /\ audioEnabled' = sidebarAudio
  /\ UNCHANGED <<screenReaderMode, autoReadDescription, isSettingsOpen>>
  /\ SettingsCommit(IF ~audioEnabled /\ ~screenReaderMode
                      THEN speak(out, <<"Audio guidance enabled.">>,
                                 screenReaderMode, audioEnabled)
                      ELSE out)

\* SettingsModal, Master Audio checkbox: disabled={screenReaderMode},
\* onChange sets audioEnabled to e.target.checked
masterAudio ==
  /\ ~crashed /\ isSettingsOpen /\ ~screenReaderMode
  /\ audioEnabled' = ~audioEnabled
  /\ UNCHANGED <<screenReaderMode, autoReadDescription, isSettingsOpen>>
  /\ SettingsCommit(out)

\* SettingsModal, Screen Reader Mode checkbox: setScreenReaderMode(checked);
\* if (checked) setAudioEnabled(false)
screenReader ==
  /\ ~crashed /\ isSettingsOpen
  /\ screenReaderMode' = ~screenReaderMode
  /\ audioEnabled' = IF ~screenReaderMode THEN FALSE ELSE audioEnabled
  /\ UNCHANGED <<autoReadDescription, isSettingsOpen>>
  /\ SettingsCommit(out)

\* SettingsModal, Auto-Read Details checkbox:
\* disabled={!audioEnabled && !screenReaderMode}
autoRead ==
  /\ ~crashed /\ isSettingsOpen /\ (audioEnabled \/ screenReaderMode)
  /\ autoReadDescription' = ~autoReadDescription
  /\ UNCHANGED <<audioEnabled, screenReaderMode, isSettingsOpen>>
  /\ SettingsCommit(out)

\* list view: onClick={() => handleNodeClick(node)}
listClick(i) ==
  /\ ~crashed /\ viewMode = "list" /\ ~isSettingsOpen
  /\ handleNodeClick(nodes[i])
  /\ UNCHANGED <<gesture, logVars, quietVars>>
  /\ HostData

\* ThreatPanel, "Read AI Narrative" button: onClick={() => onSpeak(narrative)}
readNarrative ==
  /\ ~crashed /\ selectedNode # NoNode /\ ~isSettingsOpen
  /\ out.timers < MaxTimers
  /\ out' = speak(out, narrative, screenReaderMode, audioEnabled)
  /\ UNCHANGED <<graphState, selectedNode, panelVars, quietVars>>

\* generateThreatNarrative(node).then(text => {...}) for the k-th pending
\* request: setNarrative(text); setLoading(false)
narrativeDone(k) ==
  /\ k \in DOMAIN requests
  /\ narrative' = NarrativeFor(requests[k])
  /\ loading' = FALSE
  /\ requests' = SubSeq(requests, 1, k - 1) \o SubSeq(requests, k + 1, Len(requests))
  /\ UNCHANGED <<graphState, selectedNode, out, quietVars>>

\* setTimeout(() => setAnnouncement(""), 1000) fires
clearAnnouncement ==
  /\ out.timers > 0
  /\ out' = [out EXCEPT !.announcement = NoText, !.timers = @ - 1]
  /\ UNCHANGED <<graphState, selectedNode, panelVars, quietVars>>

\* the utterance being spoken ends
utteranceEnd ==
  /\ out.synth # <<>>
  /\ out' = [out EXCEPT !.synth = Tail(@)]
  /\ UNCHANGED <<graphState, selectedNode, panelVars, quietVars>>

\* the App shown in the list view: it was mounted with the graph, then
\* setViewMode('list') unmounted the NetworkGraph
ListView ==
  /\ nodes = mockNodes
  /\ links = mockLinks
  /\ viewMode = "list"
  /\ selectedNode = NoNode
  /\ reducedMotion = FALSE
  /\ highContrast = FALSE
  /\ mounted = FALSE
  /\ crashed = FALSE
  /\ dataGen = 1
  /\ gx = InitializeNodes([i \in NodeIdx |-> NoPos], [i \in NodeIdx |-> NoPos])
  /\ gfx = [i \in NodeIdx |-> NoPos]
  /\ resolved = [j \in 1..Len(links) |-> TRUE]
  /\ svgLines = <<>>
  /\ svgGroups = <<>>
  /\ transform = [i \in NodeIdx |-> NoPos]
  /\ sims = << SimulationWith(FALSE, AlphaInit, 1) >>
  /\ gesture = [p \in Pointers |-> NoGesture]
  /\ calls = <<>>
  /\ activations = <<>>
  /\ otherKeys = 0

InitList == ListView /\ ShellInit

NextSettings ==
  \/ openSettings
  \/ closeSettings
  \/ toggleAudio
  \/ masterAudio
  \/ screenReader
  \/ autoRead
  \/ \E i \in NodeIdx : listClick(i)
  \/ onClose
  \/ readNarrative
  \/ \E k \in 1..MaxRequests : narrativeDone(k)
  \/ clearAnnouncement
  \/ utteranceEnd

SpecSettings == InitList /\ [][NextSettings]_vars

\* the ThreatPanel: selections from the list, the panel's buttons, the
\* narrative requests completing in any order, and what is heard
NextPanel ==
  \/ \E i \in NodeIdx : listClick(i)
  \/ onClose
  \/ \E k \in 1..MaxRequests : narrativeDone(k)
  \/ readNarrative
  \/ clearAnnouncement
  \/ utteranceEnd

\* the list view with no node selected, under any settings, the settings
\* modal closed
InitPanel ==
  /\ ListView
  /\ audioEnabled \in BOOLEAN
  /\ screenReaderMode \in BOOLEAN
  /\ autoReadDescription \in BOOLEAN
  /\ isSettingsOpen = FALSE
  /\ out = Silence
  /\ narrative = NoText
  /\ loading = FALSE
  /\ requests = <<>>
  /\ isListening = FALSE
  /\ recognition = [selectedNode |-> NoNode,
                    screenReaderMode |-> screenReaderMode,
                    audioEnabled |-> audioEnabled]
  /\ commands = <<>>
  /\ messages = << [role |-> "model", text |-> <<"greeting">>] >>
  /\ input = NoText
  /\ chatLoading = FALSE
  /\ mode = "chat"
  /\ chatRequests = <<>>

SpecPanel == InitPanel /\ [][NextPanel]_vars

----------------------------------------------------------------------------
(* ChatBot *)

\* what is typed into the text field
ChatInputs == { <<" ">>, <<"q">>, <<" ", "q">> }

\* String.prototype.trim: the text without its leading and trailing blanks
RECURSIVE trim(_)
trim(text) ==
  IF text = <<>> THEN text
  ELSE IF Head(text) = " " THEN trim(Tail(text))
  ELSE IF text[Len(text)] = " " THEN trim(SubSeq(text, 1, Len(text) - 1))
  ELSE text

\* an early return that looks at the input only
RejectedBlankOnly(text, busy) == trim(text) = NoText

\* handleSend's early return: if (!input.trim() || loading) return
Rejected(text, busy) == trim(text) = NoText \/ busy

\* the text of the reply using the mode of the current render
ResponseTextNow(r, ok) ==
  IF mode = "search"
    THEN IF ok THEN <<"search result for", r.text>>
               ELSE <<"Error searching threat intelligence.">>
    ELSE IF ok THEN <<"reply to", r.text>>
               ELSE <<"I encountered an error connecting to the security mainframe.">>

\* responseText of the handleSend call r once its backend call has returned
\* (ok) or thrown inside the service, which then returns its fallback text
ResponseText(r, ok) ==
  IF r.mode = "search"
    THEN IF ok THEN <<"search result for", r.text>>
               ELSE <<"Error searching threat intelligence.">>
    ELSE IF ok THEN <<"reply to", r.text>>
               ELSE <<"I encountered an error connecting to the security mainframe.">>

\* onChange={(e) => setInput(e.target.value)}
setInput(t) ==
  /\ t # input
  /\ input' = t
  /\ UNCHANGED <<graphState, selectedNode, out, panelVars, settingsVars,
                 voiceVars, messages, chatLoading, mode, chatRequests>>

\* onClick={() => setMode('chat' | 'search')}
setMode(m) ==
  /\ m # mode
  /\ mode' = m
  /\ UNCHANGED <<graphState, selectedNode, out, panelVars, settingsVars,
                 voiceVars, messages, input, chatLoading, chatRequests>>

\* handleSend up to its await, from the send button or the Enter key: the
\* call keeps the mode, audioEnabled and onSpeak of the render it is made in
handleSend ==
  /\ Len(messages) < MaxMessages
  /\ IF Rejected(input, chatLoading)
       THEN UNCHANGED <<input, chatLoading, messages, chatRequests>>
       ELSE /\ input' = NoText
            /\ chatLoading' = TRUE
            /\ messages' = Append(messages, [role |-> "user", text |-> input])
            /\ chatRequests' = Append(chatRequests,
                  [text |-> input, mode |-> mode,
                   audioEnabled |-> audioEnabled,
                   screenReaderMode |-> screenReaderMode])
  /\ UNCHANGED <<graphState, selectedNode, out, panelVars, settingsVars,
                 voiceVars, mode>>

\* the rest of the oldest pending handleSend call, once searchThreatIntel or
\* sendMessageToChatbot has resolved
replyDone(ok) ==
  /\ chatRequests # <<>>
  /\ out.timers < MaxTimers
  /\ LET r == Head(chatRequests) IN
       /\ messages' = Append(messages, [role |-> "model",
                                        text |-> ResponseText(r, ok)])
       /\ out' = IF r.audioEnabled
                   THEN speak(out, ResponseText(r, ok), r.screenReaderMode,
                              r.audioEnabled)
                   ELSE out
  /\ chatLoading' = FALSE
  /\ chatRequests' = Tail(chatRequests)
  /\ UNCHANGED <<graphState, selectedNode, panelVars, settingsVars, voiceVars,
                 input, mode>>

NextChat ==
  \/ \E t \in ChatInputs : setInput(t)
  \/ \E m \in {"chat", "search"} : setMode(m)
  \/ handleSend
  \/ \E ok \in BOOLEAN : replyDone(ok)
  \/ toggleAudio
  \/ clearAnnouncement

\* the backend call of a pending request returns or throws, and a timer
\* that was set fires
SpecChat ==
  /\ InitPanel /\ [][NextChat]_vars
  /\ WF_vars(\E ok \in BOOLEAN : replyDone(ok))
  /\ WF_vars(clearAnnouncement)

----------------------------------------------------------------------------
(* App: voice commands *)

Intents == {"SHOW_DETAILS", "SELECT_CRITICAL", "UNKNOWN"}

\* the node a handleVoiceCommand call sees selected: selectedNode of the
\* render in which the recognition effect installed the handler
SelectionSeen(c) == c.selectedNode

\* `Showing details for ${selectedNode.label}.`
DetailsText(id) == <<"Showing details for ", nodes[Find(id)].label, ".">>

\* mockNodes.find(n => n.status === 'critical'): its index, 0 if none
criticalNode ==
  IF \E i \in 1..Len(mockNodes) : mockNodes[i].status = "critical"
    THEN CHOOSE i \in 1..Len(mockNodes) :
           /\ mockNodes[i].status = "critical"
           /\ \A k \in 1..(i - 1) : mockNodes[k].status # "critical"
    ELSE 0

\* toggleListening: recognition.start() and setIsListening(true), or
\* recognition.stop(), after which onend does setIsListening(false)
toggleListening ==
  /\ ~crashed /\ ~isSettingsOpen
  /\ isListening' = ~isListening
  /\ UNCHANGED <<appVars, settingsVars>>
  /\ Rerender
  /\ UNCHANGED <<gesture, logVars, out, panelVars, recognition, commands,
                 chatVars>>
  /\ HostData

\* recog.onresult up to the await in handleVoiceCommand: the handler is the
\* one the recognition effect installed, with the speak and the
\* selectedNode of that render
onresult(intent) ==
  /\ ~crashed /\ isListening
  /\ Len(commands) < MaxCommands
  /\ out.timers < MaxTimers
  /\ isListening' = FALSE
  /\ UNCHANGED <<appVars, settingsVars>>
  /\ Rerender
  /\ out' = speak(out, <<"Processing: ", intent>>,
                  recognition.screenReaderMode, recognition.audioEnabled)
  /\ commands' = Append(commands,
                        [intent |-> intent,
                         selectedNode |-> recognition.selectedNode,
                         screenReaderMode |-> recognition.screenReaderMode,
                         audioEnabled |-> recognition.audioEnabled])
  /\ UNCHANGED <<gesture, logVars, panelVars, recognition, chatVars>>
  /\ HostData

\* recog.onerror: setIsListening(false); speak("I didn't catch that.")
onerror ==
  /\ ~crashed /\ isListening
  /\ out.timers < MaxTimers
  /\ isListening' = FALSE
  /\ UNCHANGED <<appVars, settingsVars>>
  /\ Rerender
  /\ out' = speak(out, <<"I didn't catch that.">>,
                  recognition.screenReaderMode, recognition.audioEnabled)
  /\ UNCHANGED <<gesture, logVars, panelVars, recognition, commands, chatVars>>
  /\ HostData

\* what case 'SHOW_DETAILS' of the call c says
ShowDetailsText(c) ==
  IF SelectionSeen(c) # NoNode
    THEN DetailsText(SelectionSeen(c))
    ELSE <<"No host selected.">>

\* the rest of handleVoiceCommand for the k-th pending call, once
\* parseVoiceCommand has resolved
parsed(k) ==
  /\ ~crashed /\ k \in DOMAIN commands
  /\ out.timers < MaxTimers
  /\ commands' = SubSeq(commands, 1, k - 1)
                   \o SubSeq(commands, k + 1, Len(commands))
  /\ UNCHANGED <<viewMode, reducedMotion, highContrast, settingsVars>>
  /\ LET c == commands[k]
         say(text) == speak(out, text, c.screenReaderMode, c.audioEnabled)
     IN  CASE c.intent = "SHOW_DETAILS" ->
                /\ out' = say(ShowDetailsText(c))
                /\ UNCHANGED <<selectedNode, graphVars, panelVars>>
           [] c.intent = "SELECT_CRITICAL" /\ criticalNode # 0 ->
                /\ selectedNode' = mockNodes[criticalNode].id
                /\ IF selectedNode # mockNodes[criticalNode].id
                     THEN /\ Rerender
                          /\ PanelEffect(say(<<"Selecting first critical host.">>),
                                         mockNodes[criticalNode],
                                         screenReaderMode, audioEnabled,
                                         autoReadDescription)
                     ELSE /\ out' = say(<<"Selecting first critical host.">>)
                          /\ UNCHANGED <<graphVars, panelVars>>
           [] c.intent = "SELECT_CRITICAL" /\ criticalNode = 0 ->
                /\ out' = say(<<"No critical hosts found.">>)
                /\ UNCHANGED <<selectedNode, graphVars, panelVars>>
           [] OTHER ->
                /\ out' = say(<<"Command not recognized.">>)
                /\ UNCHANGED <<selectedNode, graphVars, panelVars>>
  /\ UNCHANGED <<gesture, logVars, isListening, recognition, chatVars>>
  /\ HostData

NextVoice ==
  \/ toggleAudio
  \/ \E i \in NodeIdx : listClick(i)
  \/ onClose
  \/ \E k \in 1..MaxRequests : narrativeDone(k)
  \/ toggleListening
  \/ \E intent \in Intents : onresult(intent)
  \/ onerror
  \/ \E k \in 1..MaxCommands : parsed(k)

SpecVoice == InitList /\ [][NextVoice]_vars

\* the texts a step makes audible
Heard ==
  (IF out'.timers = out.timers + 1 THEN {out'.announcement} ELSE {})
    \cup (IF out'.synth # out.synth /\ out'.synth # <<>>
            THEN {out'.synth[Len(out'.synth)]} ELSE {})

----------------------------------------------------------------------------
(* Claims *)

\* the record of the host's node list with the given id
HostRecord(id) == CHOOSE n \in { nodes[k] : k \in NodeIdx } : n.id = id

\* C1: every click, Enter or Space delivered to the rendered node with id i
\* invokes onNodeClick exactly once, with the host's record of id i; a
\* keydown with any other key invokes it zero times.  So the log of calls
\* matches the log of activations entry by entry, whatever other keys came.
C1_ActivationNotifiesOnce ==
  /\ Len(calls) = Len(activations)
  /\ \A k \in 1..Len(calls) :
       /\ activations[k] \in NodeIds
       /\ calls[k] = HostRecord(activations[k])

C1_Witness ==
  /\ otherKeys = 1
  /\ activations = <<"db-prod-01">>
  /\ calls = <<mockNodes[2]>>

C3_ActivationKeepsLayout ==
  [][Len(activations') = Len(activations) + 1 =>
       /\ gx' = gx
       /\ gfx' = gfx
       /\ sims' = sims]_vars

\* C4: a tick never moves a pinned node: after every frame each node that
\* is pinned is at its pinned position.
C4_PinnedStaysPut ==
  [][Frame => \A i \in NodeIdx : gfx[i] # NoPos => gx'[i] = gfx[i]]_vars

C4_Witness ==
  \E i \in NodeIdx :
    /\ gfx[i] \in DragPoints
    /\ gx[i] = gfx[i]
    /\ transform[i] = gfx[i]
    /\ \E k \in NodeIdx : k # i /\ gx[k] # InitPos(k)

\* C5: when a drag ends, the node's position right after the release is
\* the position of the last drag-move (the pin it had), in every
\* interleaving of moves, ticks and the release.
C5_ReleaseAtLastDragPosition ==
  [][\A p \in Pointers :
       (/\ dragended(p)
        /\ SameData(gesture[p].sim)
        /\ gfx[gesture[p].node] # NoPos)
       => gx'[gesture[p].node] = gfx[gesture[p].node]]_vars

\* C6: a drag-move is reflected at the next tick: after a frame, every
\* rendered node with a drag in progress is drawn at its pinned position.
C6_MoveShownAtNextTick ==
  [][(Frame /\ mounted) =>
       \A p \in Pointers :
         (/\ gesture[p] # NoGesture
          /\ SameData(gesture[p].sim)
          /\ gfx[gesture[p].node] # NoPos)
         => transform'[gesture[p].node] = gfx[gesture[p].node]]_vars

\* C7: while a drag on a node of the rendered graph is in progress, the
\* simulation that drives the rendered graph stays warm: its alpha has not
\* fallen below the settle threshold and stopped it.
C7_WarmWhileDragging ==
  (/\ mounted
   /\ \E p \in Pointers : gesture[p] # NoGesture /\ SameData(gesture[p].sim))
  => sims[cur].running

\* C8: teardown before restart: a simulation whose graph view was unmounted
\* or whose dataset was replaced no longer ticks.
C8_DiscardedSimulationStopped ==
  \A s \in 1..Len(sims) :
    (~mounted \/ sims[s].data # dataGen) => ~sims[s].running

\* C9: exclusive ownership: at most one ticking simulation writes the
\* positions of any one collection of node objects.
C9_OneSimulationPerNodeSet ==
  \A s, t \in 1..Len(sims) :
    (sims[s].running /\ sims[t].running /\ sims[s].data = sims[t].data)
    => s = t

\* C10: a malformed link does not crash the simulation: once the effect
\* has run, every node and every well-formed link is rendered and the
\* malformed links are not.
C10_MalformedLinkDropped ==
  sims # <<>> =>
    /\ ~crashed
    /\ GroupIds = [i \in NodeIdx |-> nodes[i].id]
    /\ { svgLines[k] : k \in DOMAIN svgLines }
         = { j \in 1..Len(links) : LinkFound(links[j]) }

\* C11: a dataset replaced in mid-drag abandons the drag cleanly: no
\* drag-end of a gesture writes to a node object of a replaced clone set or
\* to its discarded simulation, and the nodes of a new clone set start
\* unpinned.
C11_DragAbandonedOnReplace ==
  [][/\ \A p \in Pointers : dragended(p) => SameData(gesture[p].sim)
     /\ dataGen' # dataGen => \A i \in NodeIdx : gfx'[i] = NoPos]_vars

\* C12: the empty cases do not fail: with no links, once the effect has run
\* the simulation is constructed, nothing threw, every node is rendered (none
\* when the node list is empty) and no line is rendered.
C12_EmptyCasesRender ==
  (sims # <<>> /\ links = <<>>) =>
    /\ ~crashed
    /\ mounted
    /\ sims[cur].forces
    /\ GroupIds = [i \in NodeIdx |-> nodes[i].id]
    /\ svgLines = <<>>

C12_Witness ==
  /\ nodes = <<>> /\ links = <<>>
  /\ mounted /\ ~crashed
  /\ sims # <<>> /\ ~sims[cur].running
  /\ svgGroups = <<>> /\ svgLines = <<>>

C14_SettledUntilDragStart ==
  /\ NoDrag ~> (Running = {} \/ ~NoDrag)
  /\ [][(/\ sims # <<>>
         /\ Running = {}
         /\ viewMode' = viewMode /\ reducedMotion' = reducedMotion
         /\ \E s \in 1..Len(sims') : sims'[s].running)
        => \E p \in Pointers :
             gesture[p] = NoGesture /\ gesture'[p] # NoGesture]_vars

\* C15: a drag start on a settled simulation restarts it without discarding
\* positions: the simulation ticks again and its next tick leaves it above
\* the settle threshold, every node is where it was, and the dragged node
\* is pinned exactly there.
C15_RestartKeepsPositions ==
  [][\A p \in Pointers, i \in NodeIdx :
       (dragstarted(p, i) /\ ~sims[cur].running)
       => /\ sims'[cur].running
          /\ StepSim(sims'[cur]).running
          /\ gx' = gx
          /\ gfx'[i] = gx[i]]_vars

C15_Witness ==
  /\ mounted
  /\ sims[cur].running /\ sims[cur].alpha < AlphaMin
  /\ sims[cur].target = WarmTarget
  /\ \E p \in Pointers :
       /\ gesture[p].sim = cur
       /\ gfx[gesture[p].node] = gx[gesture[p].node]
       /\ gx[gesture[p].node] # InitPos(gesture[p].node)

\* C16: of two simulations constructed alike and never dragged, the one
\* with reducedMotion reaches the settle threshold in strictly fewer ticks:
\* at the frame whose tick settles the default one, the reduced-motion one
\* had settled at an earlier frame.
C16_ReducedMotionSettlesSooner ==
  [][\A s, t \in 1..Len(sims) :
       (/\ ~sims[s].rm /\ sims[t].rm
        /\ sims[s].running /\ ~sims'[s].running)
       => ~sims[t].running]_vars

C16_Witness ==
  /\ Len(sims) = 2
  /\ ~sims[1].rm /\ sims[1].running /\ sims[1].alpha > DecayScale \div 4
  /\ sims[2].rm /\ ~sims[2].running /\ sims[2].alpha < AlphaMin

\* C17: no dangling link endpoint: whenever a simulation with its link
\* force is constructed on the current node set, every link is resolved and
\* both its endpoints are nodes of that set; also after the effect re-ran
\* on links it had resolved before.
C17_LinkEndpointsPresent ==
  \A s \in 1..Len(sims) :
    (sims[s].forces /\ SameData(s)) =>
      \A j \in 1..Len(links) :
        /\ resolved[j]
        /\ NodeById(links[j].source) \in NodeIdx
        /\ NodeById(links[j].target) \in NodeIdx

C17_Witness ==
  /\ Len(sims) = 2 /\ sims[1].forces /\ sims[2].forces
  /\ sims[1].data = sims[2].data
  /\ links = mockLinks
  /\ resolved = <<TRUE>>
  /\ \E i \in NodeIdx : transform[i] # NoPos

\* C18: the renderer is idempotent: however many times the effect has run,
\* the mounted scene holds exactly one line per link and exactly one group
\* per node, in data order, never an element of an earlier run.
C18_OnePrimitivePerDatum ==
  mounted =>
    /\ svgLines = [j \in 1..Len(links) |-> j]
    /\ GroupIds = [i \in NodeIdx |-> nodes[i].id]

C18_Witness ==
  /\ mounted /\ Len(sims) = MaxSims
  /\ selectedNode # NoNode
  /\ svgLines = <<1>>
  /\ GroupIds = <<"fw-01", "db-prod-01">>

\* C19: every rendered node is a tab stop with the button role, and its
\* description is the node's category, then its label, then its status,
\* then the instruction to activate; for every node of every dataset.
C19_NodeExposedAsButton ==
  mounted =>
    \A i \in NodeIdx :
      /\ svgGroups[i].id = nodes[i].id
      /\ svgGroups[i].tabindex = 0
      /\ svgGroups[i].role = "button"
      /\ svgGroups[i].ariaLabel =
           <<nodes[i].type, " ", nodes[i].label, ", Status: ",
             nodes[i].status, ". Press Enter to view details.">>

C19_Witness ==
  /\ mounted /\ Len(nodes) = 2 /\ links = <<>>
  /\ svgGroups[2].ariaLabel =
       <<"database", " ", "Primary DB", ", Status: ", "critical",
         ". Press Enter to view details.">>
  /\ svgGroups[1].ariaLabel[1] = "firewall"

\* C20: focus styling round trip: for every node and both values of
\* highContrast, a group that does not have the focus (it never had it, or
\* it was blurred) has exactly the stroke colour, stroke width and filter
\* the renderer gives it initially; a group that has the focus has the
\* outline #38bdf8 of width 5, whatever its node's status.
C20_FocusRoundTrip ==
  mounted =>
    \A i \in NodeIdx :
      LET initial == NodeGroup(nodes[i], highContrast) IN
        /\ ~svgGroups[i].focused =>
             /\ svgGroups[i].stroke = initial.stroke
             /\ svgGroups[i].strokeWidth = initial.strokeWidth
             /\ svgGroups[i].filter = initial.filter
        /\ svgGroups[i].focused =>
             /\ svgGroups[i].stroke = "#38bdf8"
             /\ svgGroups[i].strokeWidth = 5

C20_Witness ==
  /\ mounted /\ highContrast /\ otherKeys = 1
  /\ ~svgGroups[1].focused
  /\ svgGroups[1].stroke = "#ffff00" /\ svgGroups[1].strokeWidth = 3
  /\ svgGroups[1].filter = NoFilter
  /\ svgGroups[2].focused /\ nodes[2].status = "critical"
  /\ svgGroups[2].stroke = "#38bdf8"

\* C21: category is distinguishable without colour: two rendered nodes
\* have the same shape path exactly when they have the same category, and
\* the same glyph exactly when they have the same category, whatever their
\* statuses and the flags; and a re-render under changed flags draws every
\* node with the shape and glyph it had.
C21_CategoryDistinguishable ==
  /\ [](mounted =>
          \A i, k \in NodeIdx :
            /\ (svgGroups[i].path = svgGroups[k].path)
                 <=> (nodes[i].type = nodes[k].type)
            /\ (svgGroups[i].glyph = svgGroups[k].glyph)
                 <=> (nodes[i].type = nodes[k].type))
  /\ [][(mounted /\ mounted') =>
          \A i \in NodeIdx :
            /\ svgGroups'[i].path = svgGroups[i].path
            /\ svgGroups'[i].glyph = svgGroups[i].glyph]_vars

C21_Witness ==
  /\ mounted /\ highContrast /\ Len(sims) = 2
  /\ nodes[1].type = "server" /\ nodes[2].type = "firewall"
  /\ nodes[1].status = nodes[2].status
  /\ svgGroups[1].fill = svgGroups[2].fill
  /\ svgGroups[1].path # svgGroups[2].path
  /\ svgGroups[1].glyph = "SVR" /\ svgGroups[2].glyph = "FW"

\* C22: degenerate geometry: a tick that runs with the two nodes at an
\* identical position divides by no zero distance: after it both nodes
\* have finite positions (no NaN coordinate).
C22_CoincidentNodesStayFinite ==
  [][(tick /\ gx[1] = gx[2]) =>
       \A i \in NodeIdx : gx'[i] # NaNPos /\ transform'[i] # NaNPos]_vars

C22_Witness ==
  /\ sims[1].alpha < AlphaInit
  /\ sims[1].random =
       LcgNext(LcgNext(LcgNext(LcgNext(LcgNext(<<32768, 0>>)))))
  /\ gx[1] # NaNPos /\ gx[2] # NaNPos
  /\ gx[1] # gx[2]

\* C23: two-node convergence: two nodes joined by one link of target
\* distance 150, started a tiny jitter apart, are at the end of the run
\* (the simulation has decayed at the default rate and stopped) less than
\* 5 away from distance 150.
C23_TwoNodeConvergence ==
  (Len(sims) = 1 /\ ~sims[1].running) =>
    Abs(PairDistance - LinkDistance * PxScale) < 5 * PxScale

\* C24: screen-reader mode and master audio are mutually exclusive: no
\* sequence of UI actions from the initial settings (both off) reaches a
\* state in which screenReaderMode and audioEnabled are both true.
C24_AudioModesExclusive == ~(screenReaderMode /\ audioEnabled)

\* C26: speech routing in speak(text): with screenReaderMode on the text
\* becomes the live region's announcement and speechSynthesis is not
\* touched, whatever audioEnabled is; with screenReaderMode off and
\* audioEnabled on, what was being spoken or queued is cancelled and the
\* text is the only utterance left; with both off nothing changes.
C26_SpeechRouting ==
  [][readNarrative =>
       /\ screenReaderMode =>
            /\ out'.announcement = narrative
            /\ out'.synth = out.synth
       /\ (~screenReaderMode /\ audioEnabled) =>
            /\ out'.synth = <<narrative>>
            /\ out'.announcement = out.announcement
       /\ (~screenReaderMode /\ ~audioEnabled) => out' = out]_vars

\* speak has been called in each of the four settings; with audio on it was
\* called while an utterance was being spoken
C26_Witness ==
  /\ screenReaderMode /\ audioEnabled
  /\ out.announcement = NarrativeFor("fw-01")
  /\ out.synth = <<NarrativeFor("db-prod-01")>>
  /\ out.timers > 0

\* C27: no stale narrative: while a node is selected, whenever the panel's
\* loading flag is false the narrative shown is the one generated for the
\* selected node, and loading is not false while a request for the selected
\* node is pending, in whatever order the requests of an earlier and of
\* the current selection complete.
C27_NoStaleNarrative ==
  selectedNode # NoNode =>
    /\ ~loading => narrative = NarrativeFor(selectedNode)
    /\ (\E k \in DOMAIN requests : requests[k] = selectedNode) => loading

\* C25: pin-iff-dragging: in every reachable state a node of the current
\* simulation has a pinned position exactly when a drag gesture on that
\* node has started and not yet ended; so once the last drag on a node has
\* ended the node is not left pinned.
C25_PinIffDragging ==
  \A i \in NodeIdx :
    gfx[i] # NoPos <=>
      \E p \in Pointers : /\ gesture[p] # NoGesture
                          /\ gesture[p].node = i
                          /\ SameData(gesture[p].sim)

\* C28: chat transcript: handleSend does nothing when the input is blank or
\* a request is loading, so at most one backend request is in flight; an
\* accepted send appends exactly one user message and its completion
\* exactly one model message, the reply to that user message; so after the
\* greeting the transcript alternates user, model, user, model.
C28_ChatTranscript ==
  /\ [](Len(chatRequests) <= 1)
  /\ [](\A k \in DOMAIN messages :
          messages[k].role = IF k % 2 = 0 THEN "user" ELSE "model")
  /\ [][(handleSend /\ (trim(input) = NoText \/ chatLoading))
          => UNCHANGED <<chatVars, out>>]_vars
  /\ [][(handleSend /\ ~(trim(input) = NoText \/ chatLoading))
          => /\ messages' = Append(messages, [role |-> "user", text |-> input])
             /\ Len(chatRequests') = 1]_vars
  /\ [][(\E ok \in BOOLEAN : replyDone(ok))
          => /\ Len(messages') = Len(messages) + 1
             /\ messages'[Len(messages')].role = "model"
             /\ messages'[Len(messages')].text[Len(messages'[Len(messages')].text)]
                  \in {messages[Len(messages)].text} \cup
                      {"Error searching threat intelligence.",
                       "I encountered an error connecting to the security mainframe."}
             /\ chatRequests' = <<>>]_vars

\* one exchange is complete, the second request is loading, and there is
\* text in the input field for a send that is refused
C28_Witness ==
  /\ Len(messages) = 4 /\ chatLoading
  /\ trim(input) # NoText
  /\ Len(chatRequests) = 1

\* C29: every accepted chat send eventually completes: whether the backend
\* call succeeds or fails, a model message (the reply or a fallback text)
\* is appended and loading returns to false; and the request is served in
\* the mode that was set when it was sent, even if the mode is switched
\* while it is pending.
C29_SendCompletes ==
  /\ chatLoading ~> (~chatLoading /\ messages[Len(messages)].role = "model")
  /\ [][(\E ok \in BOOLEAN : replyDone(ok))
          => /\ ~chatLoading'
             /\ messages'[Len(messages')].text[1] \in
                  IF chatRequests[1].mode = "search"
                    THEN {"search result for",
                          "Error searching threat intelligence."}
                    ELSE {"reply to",
                          "I encountered an error connecting to the security mainframe."}]_vars

\* one exchange has completed with a fallback text, and the mode has been
\* switched while the second request, sent in chat mode, is pending
C29_Witness ==
  /\ Len(messages) = 4 /\ chatLoading
  /\ messages[3].text = <<"Error searching threat intelligence.">>
  /\ chatRequests[1].mode = "chat" /\ mode = "search"

\* C30: the voice command SHOW_DETAILS acts on the current selection: when
\* the recognized command is handled with a node selected, what is
\* announced is the details line of that node, and "No host selected." is
\* announced only when no node is selected at that time, whatever the
\* order of selection changes and of set-ups of the recognition handler.
C30_ShowDetailsCurrentSelection ==
  [][\A k \in 1..MaxCommands :
       (k \in DOMAIN commands /\ commands[k].intent = "SHOW_DETAILS"
          /\ parsed(k))
        => /\ selectedNode # NoNode => Heard \subseteq {DetailsText(selectedNode)}
           /\ <<"No host selected.">> \in Heard => selectedNode = NoNode]_vars

====
